---- MODULE Spec2Model ----
(***************************************************************************)
(* A model of the TaskManager back end (src/main.py, src/models.py,        *)
(* src/utils.py): the relational store (users, projects, the user_project  *)
(* association table, branches, tasks, skills), the request handlers that  *)
(* act on it, and the response each handler returns (its HTTP status code  *)
(* and, for the project summary, its body).                                *)
(*                                                                         *)
(* Conventions.  A table is a function from the primary keys of its rows   *)
(* to the rows.  SQL NULL in an integer column is Null (serial keys start  *)
(* at 1), in a string column NoneStr, in a DateTime column NoDate.  A text *)
(* the code inspects character by character (a login, an e-mail address)   *)
(* is a sequence of one-character strings.  An exception is a record of    *)
(* its class and, where it has one, its status code; the error kind a      *)
(* client sees is the status code handle_exception raises.                 *)
(*                                                                         *)
(* The handlers are written without bounds, as the code is.  Each          *)
(* specification below draws the requests of its handlers from small sets  *)
(* and bounds the rows ever inserted.                                      *)
(***************************************************************************)
EXTENDS Integers, Sequences, FiniteSets, TLC

VARIABLES
    users,          \* table users: id -> [login, email, hashed_password, role]
    projects,       \* table projects: id -> [name, created_by]
    user_project,   \* association table: <<user_id, project_id>> -> number of rows
    branches,       \* table branches: id -> [name, description, project_id]
    tasks,          \* table tasks: id -> row (see NewTaskRow)
    skills,         \* table skills: the names, in the order of their ids
    nextUserId,     \* the users.id serial
    nextProjectId,  \* the projects.id serial
    nextBranchId,   \* number of uuid4() branch ids drawn so far
    nextTaskId,     \* number of uuid4() task ids drawn so far
    clock,          \* what datetime.now() returns
    pending,        \* requests between their checks and their commit, by session
    held,           \* the token the client holds: the last one issued
    resp            \* the last response returned to a client

vars == <<users, projects, user_project, branches, tasks, skills, nextUserId,
          nextProjectId, nextBranchId, nextTaskId, clock, pending, held,
          resp>>

Store == <<users, projects, user_project, branches, tasks, skills,
           nextUserId, nextProjectId, nextBranchId, nextTaskId>>

----------------------------------------------------------------------------
(* Bounds of the specifications. *)

\* projects ever created
MaxProjects == 1
\* branches ever created (summary specification)
MaxBranches == 2
\* tasks ever created (task and summary specifications)
MaxTasks == 2
\* last instant of the clock
MaxTime == 2
\* branches ever created (task and access specifications)
FewBranches == 1
\* tasks ever created (access specification)
FewTasks == 1
\* users ever registered (authentication specification)
MaxUsers == 2
\* register requests in flight at once (authentication specification)
MaxPending == 2

----------------------------------------------------------------------------
(* Values. *)

Null == 0
NoneStr == "<None>"
NoDate == -1

\* HTTP status codes (fastapi.status).
HTTP_200_OK == 200
HTTP_400_BAD_REQUEST == 400
HTTP_401_UNAUTHORIZED == 401
HTTP_403_FORBIDDEN == 403
HTTP_404_NOT_FOUND == 404
HTTP_500_INTERNAL_SERVER_ERROR == 500

UserIds == 1..MaxUsers
ProjectIds == 1..MaxProjects

----------------------------------------------------------------------------
(* Exceptions and handle_exception (src/utils.py). *)

\* AppException(message, status_code): the status code defaults to 400.
AppException(status_code) == [class |-> "AppException", status_code |-> status_code]
AppExceptionDefault == AppException(HTTP_400_BAD_REQUEST)

\* fastapi.HTTPException(status_code, detail)
HTTPException(status_code) == [class |-> "HTTPException", status_code |-> status_code]

\* Any other exception: KeyError, AttributeError, sqlalchemy's IntegrityError
\* and StaleDataError.
OtherException(class) == [class |-> class, status_code |-> Null]

\* handle_exception: an AppException is raised again as an HTTPException of
\* its own status code, every other exception as 500.
handle_exception(e) ==
    IF e.class = "AppException" THEN e.status_code
    ELSE HTTP_500_INTERNAL_SERVER_ERROR

----------------------------------------------------------------------------
(* Request payloads of the task handlers. *)

\* A value of a request dictionary under a date key: the key is missing
\* ("absent"), holds null, the empty string, a text that is no date ("junk"),
\* an ISO-8601 text or a DD.MM.YYYY text of the instant t.
AbsentKey == [kind |-> "absent", t |-> Null]
NullValue == [kind |-> "null", t |-> Null]
EmptyText == [kind |-> "empty", t |-> Null]
JunkText == [kind |-> "junk", t |-> Null]
IsoText(t) == [kind |-> "iso", t |-> t]
DmyText(t) == [kind |-> "dmy", t |-> t]

\* Python truthiness of task_data.get(key): None and "" are falsy.
Truthy(v) == v.kind \in {"junk", "iso", "dmy"}

\* task_data[key] raises KeyError when the key is missing.
RaisesKeyError(v) == v.kind = "absent"

\* parse_date: None for a falsy text, the instant of an ISO text, else the
\* instant of a DD.MM.YYYY text, else None.
parse_date(v) ==
    IF ~Truthy(v) THEN NoDate
    ELSE IF v.kind = "iso" THEN v.t
    ELSE IF v.kind = "dmy" THEN v.t
    ELSE NoDate

\* The dates add_task stores: start_date from "startDate"; end_date, when
\* "endDate" is truthy, from task_data["startDate"] as well.
AddTaskDates(data) ==
    LET start == IF Truthy(data.startDate) THEN parse_date(data.startDate) ELSE NoDate
    IN  IF Truthy(data.endDate)
        THEN IF RaisesKeyError(data.startDate)
             THEN [error |-> TRUE, start_date |-> start, end_date |-> NoDate]
             ELSE [error |-> FALSE, start_date |-> start,
                   end_date |-> parse_date(data.startDate)]
        ELSE [error |-> FALSE, start_date |-> start, end_date |-> NoDate]

\* task_data.get(key, default): the value under a key the request supplies,
\* the default (None, unless one is given) under a key it does not.
DictGet(data, key, default) ==
    IF key \in data.supplied THEN data[key] ELSE default

\* The row add_task inserts.
NewTaskRow(bid, data) ==
    [name |-> data.title,
     branch_id |-> bid,
     assigned_to_id |-> DictGet(data, "assignedTo", Null),
     done |-> DictGet(data, "done", FALSE),
     has_problem |-> DictGet(data, "hasProblem", FALSE),
     problem_message |-> DictGet(data, "problemMessage", NoneStr),
     start_date |-> AddTaskDates(data).start_date,
     end_date |-> AddTaskDates(data).end_date,
     skill_id |-> DictGet(data, "skillId", Null),
     file |-> DictGet(data, "file", NoneStr)]

\* The row edit_task_in_branch leaves: a date is overwritten when its input is
\* truthy, every other field by the input or None.
EditTaskRow(row, data) ==
    [row EXCEPT
        !.start_date = IF Truthy(data.startDate) THEN parse_date(data.startDate) ELSE @,
        !.end_date = IF Truthy(data.endDate) THEN parse_date(data.endDate) ELSE @,
        !.name = data.title,
        !.assigned_to_id = DictGet(data, "assignedTo", Null),
        !.skill_id = DictGet(data, "skillId", Null),
        !.file = DictGet(data, "file", NoneStr),
        !.problem_message = DictGet(data, "problemMessage", NoneStr)]

\* Mutant: the message is stored only when the request gives one.
DoneRow_KeepsMessageWhenEmpty(row, problemMessage) ==
    [row EXCEPT !.done = TRUE, !.has_problem = FALSE,
                !.problem_message = IF problemMessage = "" THEN @ ELSE problemMessage]

\* Mutant: the request flips done instead of setting it.
DoneRow_TogglesDone(row, problemMessage) ==
    [row EXCEPT !.done = ~@, !.has_problem = FALSE,
                !.problem_message = problemMessage]

\* done_task_in_branch's three assignments.
DoneRow(row, problemMessage) ==
    [row EXCEPT !.done = TRUE, !.has_problem = FALSE,
                !.problem_message = problemMessage]

\* Mutant: done is left as it was.
ProblemRow_KeepsDone(row, problemMessage) ==
    [row EXCEPT !.has_problem = TRUE, !.problem_message = problemMessage]

\* problem_task_in_branch's three assignments.
ProblemRow(row, problemMessage) ==
    [row EXCEPT !.has_problem = TRUE, !.done = FALSE,
                !.problem_message = problemMessage]

----------------------------------------------------------------------------
(* Look-ups and the checks the handlers open with. *)

\* current_user in project.members: some row of user_project joins them.
IsMember(u, pid) == user_project[<<u, pid>>] > 0

\* project.members, as the set of the users joined to the project.
Members(pid) == {u \in UserIds : IsMember(u, pid)}

\* The opening of a handler addressed by a project: 404 for an unknown
\* project, 403 for a current_user outside project.members.
ProjectGate(u, pid) ==
    IF pid \notin DOMAIN projects
    THEN handle_exception(AppException(HTTP_404_NOT_FOUND))
    ELSE IF ~IsMember(u, pid)
    THEN handle_exception(AppException(HTTP_403_FORBIDDEN))
    ELSE HTTP_200_OK

\* The opening of a handler addressed by (project, branch): 404 for an unknown
\* branch or one of another project, 403 for a current_user outside
\* branch.project.members.
BranchGate(u, pid, bid) ==
    IF bid \notin DOMAIN branches \/ branches[bid].project_id # pid
    THEN handle_exception(AppException(HTTP_404_NOT_FOUND))
    ELSE IF ~IsMember(u, branches[bid].project_id)
    THEN handle_exception(AppException(HTTP_403_FORBIDDEN))
    ELSE HTTP_200_OK

\* The opening of a handler addressed by (project, branch, task): 404 for an
\* unknown task or one of another branch; task.branch.project is None for a
\* branch whose project_id is NULL, and .members then raises AttributeError;
\* 403 for a current_user outside task.branch.project.members.  The
\* project_id of the path is not read.
TaskGate(u, pid, bid, tid) ==
    IF tid \notin DOMAIN tasks \/ tasks[tid].branch_id # bid
    THEN handle_exception(AppException(HTTP_404_NOT_FOUND))
    ELSE IF branches[bid].project_id = Null
    THEN handle_exception(OtherException("AttributeError"))
    ELSE IF ~IsMember(u, branches[bid].project_id)
    THEN handle_exception(AppException(HTTP_403_FORBIDDEN))
    ELSE HTTP_200_OK

\* Ownership resolution task -> branch -> project; Null where the chain breaks.
OwnerOfBranch(bid) ==
    IF bid \in DOMAIN branches THEN branches[bid].project_id ELSE Null

OwnerOfTask(tid) ==
    IF tid \in DOMAIN tasks THEN OwnerOfBranch(tasks[tid].branch_id) ELSE Null

----------------------------------------------------------------------------
(* The aggregation of get_project_info. *)

BranchesOf(pid) == {b \in DOMAIN branches : branches[b].project_id = pid}
TasksOf(bid) == {t \in DOMAIN tasks : tasks[t].branch_id = bid}

ZeroStats ==
    [taskCount |-> 0, completedTasksCount |-> 0,
     delayedTasksCount |-> 0, problemTasksCount |-> 0]

\* Mutant: a done task whose end date has passed still counts as delayed.
IsDelayed_IgnoresDone(row, now) == row.end_date # NoDate /\ row.end_date < now

\* The condition of both delayed counts, evaluated at the instant now.
IsDelayed(row, now) == row.end_date # NoDate /\ row.end_date < now /\ ~row.done

\* Mutant: the loop never adds to the project's problem count.
CountTask_ForgetsProblem(acc, row, now) ==
    [taskCount |-> acc.taskCount + 1,
     completedTasksCount |-> acc.completedTasksCount + (IF row.done THEN 1 ELSE 0),
     delayedTasksCount |-> acc.delayedTasksCount + (IF IsDelayed(row, now) THEN 1 ELSE 0),
     problemTasksCount |-> acc.problemTasksCount]

\* The four running totals after one more task of the inner loop.
CountTask(acc, row, now) ==
    [taskCount |-> acc.taskCount + 1,
     completedTasksCount |-> acc.completedTasksCount + (IF row.done THEN 1 ELSE 0),
     delayedTasksCount |-> acc.delayedTasksCount + (IF IsDelayed(row, now) THEN 1 ELSE 0),
     problemTasksCount |-> acc.problemTasksCount + (IF row.has_problem THEN 1 ELSE 0)]

\* The running totals after the inner loop has visited the tasks ts, each
\* classified at the instant now.
RECURSIVE CountTasks(_, _, _)
CountTasks(acc, ts, now) ==
    IF ts = {} THEN acc
    ELSE LET t == CHOOSE x \in ts : TRUE
         IN  CountTasks(CountTask(acc, tasks[t], now), ts \ {t}, now)

\* The running totals after the outer loop has visited the branches bs;
\* loopAt[b] is the instant at which the tasks of b are classified.
RECURSIVE CountBranches(_, _, _)
CountBranches(acc, bs, loopAt) ==
    IF bs = {} THEN acc
    ELSE LET b == CHOOSE x \in bs : TRUE
         IN  CountBranches(CountTasks(acc, TasksOf(b), loopAt[b]), bs \ {b}, loopAt)

\* The "statistics" of one branch_dto: four sums over branch_tasks, the
\* delayed one evaluated at the instant now.
BranchStatistics(bid, now) ==
    LET ts == TasksOf(bid)
    IN  [taskCount |-> Cardinality(ts),
         completedTasksCount |-> Cardinality({t \in ts : tasks[t].done}),
         delayedTasksCount |-> Cardinality({t \in ts : IsDelayed(tasks[t], now)}),
         problemTasksCount |-> Cardinality({t \in ts : tasks[t].has_problem})]

\* The body of get_project_info's response: the members, the statistics of
\* every branch of the project and the project's task_statistics.
ProjectInfo(pid, loopAt, statAt) ==
    [members |-> Members(pid),
     branches |-> [b \in BranchesOf(pid) |-> BranchStatistics(b, statAt[b])],
     statistics |-> CountBranches(ZeroStats, BranchesOf(pid), loopAt)]

NoBody == [members |-> {}, branches |-> <<>>, statistics |-> ZeroStats]

----------------------------------------------------------------------------
(* Responses. *)

\* The response to a request: the handler that answered (op), the
\* current_user it answered, the status code and the body; of a request to
\* mark a task, also the task, the problemMessage and whether the request
\* repeats the one answered just before.
TaskResponse(op, u, tid, msg, repeat, st) ==
    [op |-> op, user |-> u, tid |-> tid, msg |-> msg, repeat |-> repeat,
     status |-> st, body |-> NoBody]

Response(op, u, st, body) ==
    [op |-> op, user |-> u, tid |-> Null, msg |-> NoneStr, repeat |-> FALSE,
     status |-> st, body |-> body]

NoResponse == Response("", Null, Null, NoBody)

----------------------------------------------------------------------------
(* Project and membership handlers. *)

\* POST /projects: the project row, then the creator's membership row.
add_project(u, name) ==
    /\ projects' = [p \in DOMAIN projects \cup {nextProjectId} |->
                       IF p = nextProjectId
                       THEN [name |-> name, created_by |-> u]
                       ELSE projects[p]]
    /\ user_project' = [user_project EXCEPT ![<<u, nextProjectId>>] = @ + 1]
    /\ nextProjectId' = nextProjectId + 1
    /\ resp' = Response("add_project", u, HTTP_200_OK, NoBody)
    /\ UNCHANGED <<users, branches, tasks, nextUserId, nextBranchId, nextTaskId,
                   clock, pending, held, skills>>

\* The status of add_user_to_project.
AddUserStatus(u, pid, target) ==
    IF ProjectGate(u, pid) # HTTP_200_OK THEN ProjectGate(u, pid)
    ELSE IF target \notin DOMAIN users
    THEN handle_exception(AppException(HTTP_404_NOT_FOUND))
    ELSE IF IsMember(target, pid)
    THEN handle_exception(AppException(HTTP_400_BAD_REQUEST))
    ELSE HTTP_200_OK

\* POST /projects/{project_id}/users
add_user_to_project(u, pid, target) ==
    LET st == AddUserStatus(u, pid, target)
    IN  /\ user_project' = IF st = HTTP_200_OK
                           THEN [user_project EXCEPT ![<<target, pid>>] = @ + 1]
                           ELSE user_project
        /\ resp' = Response("add_user_to_project", u, st, NoBody)
        /\ UNCHANGED <<users, projects, branches, tasks, nextUserId, nextProjectId,
                       nextBranchId, nextTaskId, clock, pending, held,
                       skills>>

\* The status remove_user_from_project's checks end with.
RemoveUserStatus(u, pid, target) ==
    IF ProjectGate(u, pid) # HTTP_200_OK THEN ProjectGate(u, pid)
    ELSE IF target \notin DOMAIN users
    THEN handle_exception(AppException(HTTP_404_NOT_FOUND))
    ELSE IF ~IsMember(target, pid)
    THEN handle_exception(AppException(HTTP_400_BAD_REQUEST))
    ELSE HTTP_200_OK

\* The statuses remove_user_from_project can answer.  The unit of work
\* deletes the association rows of the pair and expects to delete one: with
\* the pair stored twice the DELETE reports two rows, and the flush raises
\* StaleDataError where the driver's row count is trusted and deletes both
\* rows where it is not.
RemoveUserOutcomes(u, pid, target) ==
    LET st == RemoveUserStatus(u, pid, target)
    IN  IF st = HTTP_200_OK /\ user_project[<<target, pid>>] > 1
        THEN {HTTP_200_OK, handle_exception(OtherException("StaleDataError"))}
        ELSE {st}

\* POST /projects/{project_id}/users/{user_id}
remove_user_from_project(u, pid, target) ==
    \E st \in RemoveUserOutcomes(u, pid, target) :
        /\ user_project' = IF st = HTTP_200_OK
                           THEN [user_project EXCEPT ![<<target, pid>>] = 0]
                           ELSE user_project
        /\ resp' = Response("remove_user_from_project", u, st, NoBody)
        /\ UNCHANGED <<users, projects, branches, tasks, nextUserId, nextProjectId,
                       nextBranchId, nextTaskId, clock, pending, held,
                       skills>>

\* POST /projects/{project_id}/delete: the relationships Project.members and
\* Project.branches carry no delete cascade, so the unit of work deletes the
\* project's association rows and sets project_id of its branches to NULL.
delete_project(u, pid) ==
    LET st == ProjectGate(u, pid)
    IN  /\ IF st = HTTP_200_OK
           THEN /\ projects' = [p \in DOMAIN projects \ {pid} |-> projects[p]]
                /\ user_project' = [k \in DOMAIN user_project |->
                                       IF k[2] = pid THEN 0 ELSE user_project[k]]
                /\ branches' = [b \in DOMAIN branches |->
                                   IF branches[b].project_id = pid
                                   THEN [branches[b] EXCEPT !.project_id = Null]
                                   ELSE branches[b]]
           ELSE UNCHANGED <<projects, user_project, branches>>
        /\ resp' = Response("delete_project", u, st, NoBody)
        /\ UNCHANGED <<users, tasks, nextUserId, nextProjectId, nextBranchId,
                       nextTaskId, clock, pending, held, skills>>

----------------------------------------------------------------------------
(* Branch handlers. *)

\* POST /project/{project_id}/branch
add_branch(u, pid, name) ==
    LET st == ProjectGate(u, pid)
        bid == nextBranchId + 1
    IN  /\ IF st = HTTP_200_OK
           THEN /\ branches' = [b \in DOMAIN branches \cup {bid} |->
                                   IF b = bid
                                   THEN [name |-> name, description |-> NoneStr,
                                         project_id |-> pid]
                                   ELSE branches[b]]
                /\ nextBranchId' = bid
           ELSE UNCHANGED <<branches, nextBranchId>>
        /\ resp' = Response("add_branch", u, st, NoBody)
        /\ UNCHANGED <<users, projects, user_project, tasks, nextUserId,
                       nextProjectId, nextTaskId, clock, pending, held,
                       skills>>

\* POST /project/{project_id}/branch/edit
edit_project_branch(u, pid, bid, name, description) ==
    LET st == BranchGate(u, pid, bid)
    IN  /\ branches' = IF st = HTTP_200_OK
                       THEN [branches EXCEPT ![bid].name = name,
                                             ![bid].description = description]
                       ELSE branches
        /\ resp' = Response("edit_project_branch", u, st, NoBody)
        /\ UNCHANGED <<users, projects, user_project, tasks, nextUserId,
                       nextProjectId, nextBranchId, nextTaskId, clock, pending, held,
                       skills>>

\* What db.delete(branch) leaves of table tasks: Branch.tasks carries no
\* delete cascade, so the unit of work sets branch_id of the branch's tasks to
\* NULL and deletes no task.
TasksAfterBranchDelete(bid) ==
    [t \in DOMAIN tasks |->
        IF tasks[t].branch_id = bid
        THEN [tasks[t] EXCEPT !.branch_id = Null]
        ELSE tasks[t]]

\* POST /project/{project_id}/branch/delete
delete_project_branch(u, pid, bid) ==
    LET st == BranchGate(u, pid, bid)
    IN  /\ IF st = HTTP_200_OK
           THEN /\ tasks' = TasksAfterBranchDelete(bid)
                /\ branches' = [b \in DOMAIN branches \ {bid} |-> branches[b]]
           ELSE UNCHANGED <<tasks, branches>>
        /\ resp' = Response("delete_project_branch", u, st, NoBody)
        /\ UNCHANGED <<users, projects, user_project, nextUserId, nextProjectId,
                       nextBranchId, nextTaskId, clock, pending, held,
                       skills>>

----------------------------------------------------------------------------
(* Task handlers. *)

\* The status of add_task: the branch checks, then the KeyError of
\* task_data["startDate"].
AddTaskStatus(u, pid, bid, data) ==
    IF BranchGate(u, pid, bid) # HTTP_200_OK THEN BranchGate(u, pid, bid)
    ELSE IF AddTaskDates(data).error
    THEN handle_exception(OtherException("KeyError"))
    ELSE HTTP_200_OK

\* POST /project/{project_id}/branch/{branch_id}
add_task(u, pid, bid, data) ==
    LET st == AddTaskStatus(u, pid, bid, data)
        tid == nextTaskId + 1
    IN  /\ IF st = HTTP_200_OK
           THEN /\ tasks' = [t \in DOMAIN tasks \cup {tid} |->
                                IF t = tid THEN NewTaskRow(bid, data) ELSE tasks[t]]
                /\ nextTaskId' = tid
           ELSE UNCHANGED <<tasks, nextTaskId>>
        /\ resp' = Response("add_task", u, st, NoBody)
        /\ UNCHANGED <<users, projects, user_project, branches, nextUserId,
                       nextProjectId, nextBranchId, clock, pending, held,
                       skills>>

\* POST /project/{project_id}/branch/{branch_id}/task/{task_id}
edit_task_in_branch(u, pid, bid, tid, data) ==
    LET st == TaskGate(u, pid, bid, tid)
    IN  /\ tasks' = IF st = HTTP_200_OK
                    THEN [tasks EXCEPT ![tid] = EditTaskRow(@, data)]
                    ELSE tasks
        /\ resp' = Response("edit_task_in_branch", u, st, NoBody)
        /\ UNCHANGED <<users, projects, user_project, branches, nextUserId,
                       nextProjectId, nextBranchId, nextTaskId, clock, pending, held,
                       skills>>

\* POST /project/{project_id}/branch/{branch_id}/task/{task_id}/delete
delete_task_in_branch(u, pid, bid, tid) ==
    LET st == TaskGate(u, pid, bid, tid)
    IN  /\ tasks' = IF st = HTTP_200_OK
                    THEN [t \in DOMAIN tasks \ {tid} |-> tasks[t]]
                    ELSE tasks
        /\ resp' = Response("delete_task_in_branch", u, st, NoBody)
        /\ UNCHANGED <<users, projects, user_project, branches, nextUserId,
                       nextProjectId, nextBranchId, nextTaskId, clock, pending, held,
                       skills>>

\* Whether a request to mark a task done repeats the request answered just
\* before: that one marked the same task done, for the same current_user and
\* with the same problemMessage, and succeeded, so under the task's branch.
Repeats(u, bid, tid, problemMessage) ==
    /\ resp.op = "done_task_in_branch"
    /\ resp.status = HTTP_200_OK
    /\ resp.user = u
    /\ resp.tid = tid
    /\ resp.msg = problemMessage
    /\ tid \in DOMAIN tasks
    /\ tasks[tid].branch_id = bid

\* POST /project/{project_id}/branch/{branch_id}/task/{task_id}/done
done_task_in_branch(u, pid, bid, tid, problemMessage) ==
    LET st == TaskGate(u, pid, bid, tid)
    IN  /\ tasks' = IF st = HTTP_200_OK
                    THEN [tasks EXCEPT ![tid] = DoneRow(@, problemMessage)]
                    ELSE tasks
        /\ resp' = TaskResponse("done_task_in_branch", u, tid, problemMessage,
                                Repeats(u, bid, tid, problemMessage), st)
        /\ UNCHANGED <<users, projects, user_project, branches, nextUserId,
                       nextProjectId, nextBranchId, nextTaskId, clock, pending, held,
                       skills>>

\* POST /project/{project_id}/branch/{branch_id}/task/{task_id}/problem
problem_task_in_branch(u, pid, bid, tid, problemMessage) ==
    LET st == TaskGate(u, pid, bid, tid)
    IN  /\ tasks' = IF st = HTTP_200_OK
                    THEN [tasks EXCEPT ![tid] = ProblemRow(@, problemMessage)]
                    ELSE tasks
        /\ resp' = TaskResponse("problem_task_in_branch", u, tid, problemMessage,
                                FALSE, st)
        /\ UNCHANGED <<users, projects, user_project, branches, nextUserId,
                       nextProjectId, nextBranchId, nextTaskId, clock, pending, held,
                       skills>>

----------------------------------------------------------------------------
(* The project summary and the clock. *)

\* The instant the clock shows when get_project_info returns: the last
\* instant it read, or the one it began at when it read none.
LastRead(statAt, now) ==
    IF DOMAIN statAt = {} THEN now
    ELSE CHOOSE m \in {statAt[b] : b \in DOMAIN statAt} :
             \A b \in DOMAIN statAt : statAt[b] <= m

\* GET /project/{project_id}.  datetime.now() is read once per task in the
\* loop and once more per task in the branch's statistics: loopAt[b] and
\* statAt[b] are the instants read for branch b, the second not before the
\* first, neither before the request began, both at most latest.
get_project_info(u, pid, latest) ==
    LET st == ProjectGate(u, pid)
        bs == BranchesOf(pid)
    IN  /\ IF st = HTTP_200_OK
           THEN \E loopAt \in [bs -> clock..latest] :
                \E statAt \in [bs -> clock..latest] :
                    /\ \A b \in bs : loopAt[b] <= statAt[b]
                    /\ resp' = Response("get_project_info", u, st,
                                        ProjectInfo(pid, loopAt, statAt))
                    /\ clock' = LastRead(statAt, clock)
           ELSE /\ resp' = Response("get_project_info", u, st, NoBody)
                /\ clock' = clock
        /\ UNCHANGED <<Store, pending, held>>

\* Time passes.
Tick ==
    /\ clock' = clock + 1
    /\ UNCHANGED <<Store, pending, held, resp>>

----------------------------------------------------------------------------
(* The store every project specification starts from: two users have
   registered (register, twice, by the authentication specification below),
   nothing else is stored. *)

Alice == <<"a", "l", "i">>
Bob == <<"b", "o", "b">>
AliceMail == <<"a", "@", "x", ".", "i", "o">>
BobMail == <<"b", "@", "x", ".", "i", "o">>

\* What get_password_hash stores: a bcrypt digest of the password, never the
\* password.
get_password_hash(password) == <<"$2b$", password>>

\* verify_password: whether the digest is one of the password.
verify_password(plain_password, hashed_password) ==
    hashed_password = <<"$2b$", plain_password>>

\* The row register inserts: role takes the column default.
NewUserRow(login, email, password) ==
    [login |-> login, email |-> email,
     hashed_password |-> get_password_hash(password), role |-> "USER"]

TwoUsers ==
    [u \in {1, 2} |->
        IF u = 1 THEN NewUserRow(Alice, AliceMail, "pw1")
        ELSE NewUserRow(Bob, BobMail, "pw2")]

\* No token: the client has not been issued one.
NoToken == [kind |-> "none", sub |-> <<>>, exp |-> Null, key |-> ""]

Idle == [login |-> <<>>, email |-> <<>>, password |-> ""]

Init ==
    /\ users = TwoUsers
    /\ nextUserId = 3
    /\ projects = <<>>
    /\ nextProjectId = 1
    /\ user_project = [k \in UserIds \X ProjectIds |-> 0]
    /\ branches = <<>>
    /\ nextBranchId = 0
    /\ tasks = <<>>
    /\ skills = <<>>
    /\ nextTaskId = 0
    /\ clock = 1
    /\ pending = [s \in 1..MaxPending |-> Idle]
    /\ held = NoToken
    /\ resp = NoResponse

ProjectNames == {"Alpha"}
BranchNames == {"B1"}
Messages == {"", "late"}

\* A payload of add_task.
\* The keys a task payload may leave out, dates apart (a date key left out
\* is AbsentKey).
OptionalKeys ==
    {"assignedTo", "skillId", "file", "problemMessage", "done", "hasProblem"}

TaskData(startDate, endDate, done, hasProblem, problemMessage) ==
    [title |-> "T1", startDate |-> startDate, endDate |-> endDate,
     done |-> done, hasProblem |-> hasProblem, problemMessage |-> problemMessage,
     assignedTo |-> Null, skillId |-> Null, file |-> NoneStr,
     supplied |-> OptionalKeys]

\* The requests a specification draws stop inserting at its bound; a request
\* that inserts nothing is drawn at any time.
Inserts(st) == st = HTTP_200_OK

----------------------------------------------------------------------------
(* The task specification: tasks created in every combination of done,
   hasProblem and problemMessage, then marked done or problematic. *)

TaskBranchIds == 1..FewBranches
TaskTaskIds == 1..MaxTasks

\* Payloads of add_task: no dates; the flags and the message as the client
\* likes.
FlagTaskInputs ==
    {TaskData(AbsentKey, AbsentKey, d, h, m) :
        d \in BOOLEAN, h \in BOOLEAN, m \in {NoneStr, "late"}}

TaskAddProject ==
    \E u \in DOMAIN users, name \in ProjectNames :
        nextProjectId <= MaxProjects /\ add_project(u, name)

TaskAddBranch ==
    \E u \in DOMAIN users, pid \in ProjectIds, name \in BranchNames :
        /\ Inserts(ProjectGate(u, pid)) => nextBranchId < FewBranches
        /\ add_branch(u, pid, name)

TaskAddTask ==
    \E u \in DOMAIN users, pid \in ProjectIds, bid \in TaskBranchIds,
       data \in FlagTaskInputs :
        /\ Inserts(AddTaskStatus(u, pid, bid, data)) => nextTaskId < MaxTasks
        /\ add_task(u, pid, bid, data)

TaskDone ==
    \E u \in DOMAIN users, pid \in ProjectIds, bid \in TaskBranchIds,
       tid \in TaskTaskIds, m \in Messages :
        done_task_in_branch(u, pid, bid, tid, m)

TaskProblem ==
    \E u \in DOMAIN users, pid \in ProjectIds, bid \in TaskBranchIds,
       tid \in TaskTaskIds, m \in Messages :
        problem_task_in_branch(u, pid, bid, tid, m)

NextTask == TaskAddProject \/ TaskAddBranch \/ TaskAddTask \/ TaskDone \/ TaskProblem

SpecTask == Init /\ [][NextTask]_vars

\* C2: after a successful markDone(t, m) the task is done, has no problem and
\* its problemMessage is m, whatever the three were before and also for the
\* empty m.
C2_MarkDonePostcondition ==
    (resp.op = "done_task_in_branch" /\ resp.status = HTTP_200_OK) =>
        /\ resp.tid \in DOMAIN tasks
        /\ tasks[resp.tid].done = TRUE
        /\ tasks[resp.tid].has_problem = FALSE
        /\ tasks[resp.tid].problem_message = resp.msg

\* A task marked done with the empty message.
C2_Witness ==
    /\ resp.op = "done_task_in_branch"
    /\ resp.status = HTTP_200_OK
    /\ resp.msg = ""
    /\ tasks[resp.tid].problem_message = ""

\* C3: after a successful markProblem(t, m) the task has a problem, is not
\* done and its problemMessage is m; and after a successful markDone or
\* markProblem the task is not both done and problematic.
C3_MarkProblemPostcondition ==
    /\ (resp.op = "problem_task_in_branch" /\ resp.status = HTTP_200_OK) =>
          /\ resp.tid \in DOMAIN tasks
          /\ tasks[resp.tid].has_problem = TRUE
          /\ tasks[resp.tid].done = FALSE
          /\ tasks[resp.tid].problem_message = resp.msg
    /\ (resp.op \in {"done_task_in_branch", "problem_task_in_branch"}
        /\ resp.status = HTTP_200_OK) =>
          ~(tasks[resp.tid].done /\ tasks[resp.tid].has_problem)

\* A task marked problematic, beside a task stored both done and problematic
\* (the store itself does not keep the two flags apart).
C3_Witness ==
    /\ resp.op = "problem_task_in_branch"
    /\ resp.status = HTTP_200_OK
    /\ tasks[resp.tid].has_problem
    /\ \E t \in DOMAIN tasks : tasks[t].done /\ tasks[t].has_problem

\* C10: a request to mark a task done that repeats the one answered just
\* before (same task, same message, which succeeded) succeeds too and leaves
\* every stored task as the first request left it.
C10_MarkDoneIdempotent ==
    [][\A u \in DOMAIN users, pid \in ProjectIds, bid \in TaskBranchIds,
          tid \in TaskTaskIds, m \in Messages :
            (Repeats(u, bid, tid, m) /\ done_task_in_branch(u, pid, bid, tid, m))
                => (resp'.status = HTTP_200_OK /\ tasks' = tasks)]_vars

\* The second of two equal requests to mark a task done has been answered.
C10_Witness ==
    /\ resp.op = "done_task_in_branch"
    /\ resp.repeat
    /\ resp.status = HTTP_200_OK

----------------------------------------------------------------------------
(* The summary specification: branches and tasks are created and deleted,
   tasks are marked, time passes, and the project summary is read. *)

SumBranchIds == 1..MaxBranches
SumTaskIds == 1..MaxTasks

\* The acting user of the summary specification: the first registered user,
\* who creates the project and so is its member.
SumUsers == {1}

\* createTask with only endDate, a date before now, and done = false: the
\* clock starts at 1, so that instant 0 is "yesterday" at any time.
EndDateOnly == TaskData(AbsentKey, IsoText(0), FALSE, FALSE, NoneStr)

\* Payloads of add_task: no dates; both dates, in the past; both dates, at
\* the last instant but one; only endDate.
SumTaskInputs ==
    {TaskData(AbsentKey, AbsentKey, FALSE, FALSE, NoneStr),
     TaskData(IsoText(0), DmyText(0), FALSE, FALSE, NoneStr),
     TaskData(IsoText(MaxTime - 1), IsoText(MaxTime - 1), FALSE, FALSE, NoneStr),
     EndDateOnly}

SumAddProject ==
    \E u \in SumUsers, name \in ProjectNames :
        nextProjectId <= MaxProjects /\ add_project(u, name)

SumAddBranch ==
    \E u \in SumUsers, pid \in ProjectIds, name \in BranchNames :
        /\ Inserts(ProjectGate(u, pid)) => nextBranchId < MaxBranches
        /\ add_branch(u, pid, name)

SumDeleteBranch ==
    \E u \in SumUsers, pid \in ProjectIds, bid \in SumBranchIds :
        delete_project_branch(u, pid, bid)

SumAddTask ==
    \E u \in SumUsers, pid \in ProjectIds, bid \in SumBranchIds,
       data \in SumTaskInputs :
        /\ Inserts(AddTaskStatus(u, pid, bid, data)) => nextTaskId < MaxTasks
        /\ add_task(u, pid, bid, data)

SumDeleteTask ==
    \E u \in SumUsers, pid \in ProjectIds, bid \in SumBranchIds,
       tid \in SumTaskIds :
        delete_task_in_branch(u, pid, bid, tid)

SumDone ==
    \E u \in SumUsers, pid \in ProjectIds, bid \in SumBranchIds,
       tid \in SumTaskIds :
        done_task_in_branch(u, pid, bid, tid, NoneStr)

SumProblem ==
    \E u \in SumUsers, pid \in ProjectIds, bid \in SumBranchIds,
       tid \in SumTaskIds :
        problem_task_in_branch(u, pid, bid, tid, "late")

SumInfo ==
    \E u \in SumUsers, pid \in ProjectIds :
        get_project_info(u, pid, MaxTime)

SumTick == clock < MaxTime /\ Tick

NextSummary ==
    \/ SumAddProject
    \/ SumAddBranch
    \/ SumDeleteBranch
    \/ SumAddTask
    \/ SumDeleteTask
    \/ SumDone
    \/ SumProblem
    \/ SumInfo
    \/ SumTick

SpecSummary == Init /\ [][NextSummary]_vars

\* The sum of one counter over the per-branch statistics of a summary.
RECURSIVE SumOfBranches(_, _, _)
SumOfBranches(stats, bs, counter) ==
    IF bs = {} THEN 0
    ELSE LET b == CHOOSE x \in bs : TRUE
         IN  stats[b][counter] + SumOfBranches(stats, bs \ {b}, counter)

\* C4: in every project summary returned, the project's taskCount,
\* completedTasksCount and problemTasksCount each equal the sum of the same
\* counter over the statistics of the branches in the same response.
C4_TotalsAreBranchSums ==
    (resp.op = "get_project_info" /\ resp.status = HTTP_200_OK) =>
        \A counter \in {"taskCount", "completedTasksCount", "problemTasksCount"} :
            resp.body.statistics[counter] =
                SumOfBranches(resp.body.branches, DOMAIN resp.body.branches, counter)

\* A summary of two branches, each with a task, one task done and one
\* problematic.
C4_Witness ==
    /\ resp.op = "get_project_info"
    /\ resp.status = HTTP_200_OK
    /\ Cardinality(DOMAIN resp.body.branches) >= 2
    /\ \A b \in DOMAIN resp.body.branches : resp.body.branches[b].taskCount >= 1
    /\ resp.body.statistics.completedTasksCount >= 1
    /\ resp.body.statistics.problemTasksCount >= 1

\* C5: createTask by a member with only endDate, a date before now, and
\* done = false succeeds and stores a task that is delayed (the summary then
\* counts it, and stops counting it once it is marked done).
C5_EndDateOnlyTaskIsDelayed ==
    [][\A u \in SumUsers, pid \in ProjectIds, bid \in SumBranchIds :
          (BranchGate(u, pid, bid) = HTTP_200_OK /\ add_task(u, pid, bid, EndDateOnly))
              => /\ resp'.status = HTTP_200_OK
                 /\ nextTaskId' \in DOMAIN tasks'
                 /\ IsDelayed(tasks'[nextTaskId'], clock)]_vars

\* C7: a successful deleteBranch(b) removes b and every task b owned, and
\* leaves no stored task whose branch reference is null or names no branch.
C7_DeleteBranchDeletesTasks ==
    [][\A u \in SumUsers, pid \in ProjectIds, bid \in SumBranchIds :
          (BranchGate(u, pid, bid) = HTTP_200_OK /\ delete_project_branch(u, pid, bid))
              => /\ bid \notin DOMAIN branches'
                 /\ \A t \in TasksOf(bid) : t \notin DOMAIN tasks'
                 /\ \A t \in DOMAIN tasks' : tasks'[t].branch_id \in DOMAIN branches']_vars

----------------------------------------------------------------------------
(* The access specification: members are added and removed, and both users
   call every branch and task handler. *)

AccBranchIds == 1..FewBranches
AccTaskIds == 1..FewTasks

\* The users a membership request names: the registered ones and an id no
\* user has.
AccTargets == DOMAIN users \cup {nextUserId}

\* The project ids a request names: those of the bound and the next one,
\* which no project has yet.
AccProjectIds == ProjectIds \cup {nextProjectId}

\* Payloads of add_task: no dates; only endDate.
AccTaskInputs ==
    {TaskData(AbsentKey, AbsentKey, FALSE, FALSE, NoneStr), EndDateOnly}

\* The payload of edit_task_in_branch: a new title and a start date.
AccEditInputs ==
    {[TaskData(IsoText(0), AbsentKey, FALSE, FALSE, NoneStr)
         EXCEPT !.title = "T2"]}

AccAddProject ==
    \E u \in DOMAIN users, name \in ProjectNames :
        nextProjectId <= MaxProjects /\ add_project(u, name)

AccDeleteProject ==
    \E u \in DOMAIN users, pid \in AccProjectIds : delete_project(u, pid)

AccAddUser ==
    \E u \in DOMAIN users, pid \in AccProjectIds, target \in AccTargets :
        add_user_to_project(u, pid, target)

AccRemoveUser ==
    \E u \in DOMAIN users, pid \in AccProjectIds, target \in AccTargets :
        remove_user_from_project(u, pid, target)

AccAddBranch ==
    \E u \in DOMAIN users, pid \in AccProjectIds, name \in BranchNames :
        /\ Inserts(ProjectGate(u, pid)) => nextBranchId < FewBranches
        /\ add_branch(u, pid, name)

AccEditBranch ==
    \E u \in DOMAIN users, pid \in AccProjectIds, bid \in AccBranchIds :
        edit_project_branch(u, pid, bid, "B2", NoneStr)

AccDeleteBranch ==
    \E u \in DOMAIN users, pid \in AccProjectIds, bid \in AccBranchIds :
        delete_project_branch(u, pid, bid)

AccAddTask ==
    \E u \in DOMAIN users, pid \in AccProjectIds, bid \in AccBranchIds,
       data \in AccTaskInputs :
        /\ Inserts(AddTaskStatus(u, pid, bid, data)) => nextTaskId < FewTasks
        /\ add_task(u, pid, bid, data)

AccEditTask ==
    \E u \in DOMAIN users, pid \in AccProjectIds, bid \in AccBranchIds,
       tid \in AccTaskIds, data \in AccEditInputs :
        edit_task_in_branch(u, pid, bid, tid, data)

AccDeleteTask ==
    \E u \in DOMAIN users, pid \in AccProjectIds, bid \in AccBranchIds,
       tid \in AccTaskIds :
        delete_task_in_branch(u, pid, bid, tid)

AccDone ==
    \E u \in DOMAIN users, pid \in AccProjectIds, bid \in AccBranchIds,
       tid \in AccTaskIds :
        done_task_in_branch(u, pid, bid, tid, NoneStr)

AccProblem ==
    \E u \in DOMAIN users, pid \in AccProjectIds, bid \in AccBranchIds,
       tid \in AccTaskIds :
        problem_task_in_branch(u, pid, bid, tid, "late")

NextAccess ==
    \/ AccAddProject
    \/ AccDeleteProject
    \/ AccAddUser
    \/ AccRemoveUser
    \/ AccAddBranch
    \/ AccEditBranch
    \/ AccDeleteBranch
    \/ AccAddTask
    \/ AccEditTask
    \/ AccDeleteTask
    \/ AccDone
    \/ AccProblem

SpecAccess == Init /\ [][NextAccess]_vars

\* The error kind a client tells from a response: the kinds the handlers
\* distinguish are their status codes, and a Conflict is an error that is
\* none of the other kinds.
ErrorKind(st) ==
    CASE st = HTTP_200_OK -> "None"
      [] st = HTTP_400_BAD_REQUEST -> "Validation"
      [] st = HTTP_401_UNAUTHORIZED -> "Unauthorized"
      [] st = HTTP_403_FORBIDDEN -> "Forbidden"
      [] st = HTTP_404_NOT_FOUND -> "NotFound"
      [] st = HTTP_500_INTERNAL_SERVER_ERROR -> "Internal"
      [] OTHER -> "Conflict"

\* C1: a branch or task handler called by u on a resource whose owning
\* project is P answers Forbidden and changes no stored state when u is not a
\* member of P, and succeeds when u is a member of P.
C1_MembershipDecides ==
    [][\A u \in DOMAIN users, pid \in ProjectIds, bid \in AccBranchIds,
          tid \in AccTaskIds :
          LET Decided ==
                  IF IsMember(u, pid)
                  THEN resp'.status = HTTP_200_OK
                  ELSE ErrorKind(resp'.status) = "Forbidden" /\ Store' = Store
              OwnsBranch == pid \in DOMAIN projects /\ OwnerOfBranch(bid) = pid
              OwnsTask == OwnsBranch /\ tid \in DOMAIN tasks
                          /\ tasks[tid].branch_id = bid
          IN  /\ (/\ pid \in DOMAIN projects
                  /\ \E name \in BranchNames : add_branch(u, pid, name))
                     => Decided
              /\ (/\ OwnsBranch
                  /\ \/ edit_project_branch(u, pid, bid, "B2", NoneStr)
                     \/ delete_project_branch(u, pid, bid)
                     \/ \E data \in AccTaskInputs : add_task(u, pid, bid, data))
                     => Decided
              /\ (/\ OwnsTask
                  /\ \/ \E data \in AccEditInputs :
                            edit_task_in_branch(u, pid, bid, tid, data)
                     \/ delete_task_in_branch(u, pid, bid, tid)
                     \/ done_task_in_branch(u, pid, bid, tid, NoneStr)
                     \/ problem_task_in_branch(u, pid, bid, tid, "late"))
                     => Decided]_vars

\* C9: addMember by a member for a user who is already a member answers with
\* the Conflict kind, removeMember by a member for a user who is no member
\* with the Validation kind, and both leave the member set as it was.
C9_MembershipErrorKinds ==
    [][\A u \in DOMAIN users, pid \in ProjectIds, target \in DOMAIN users :
          /\ (/\ ProjectGate(u, pid) = HTTP_200_OK
              /\ IsMember(target, pid)
              /\ add_user_to_project(u, pid, target))
                 => /\ ErrorKind(resp'.status) = "Conflict"
                    /\ user_project' = user_project
          /\ (/\ ProjectGate(u, pid) = HTTP_200_OK
              /\ ~IsMember(target, pid)
              /\ remove_user_from_project(u, pid, target))
                 => /\ ErrorKind(resp'.status) = "Validation"
                    /\ user_project' = user_project]_vars

----------------------------------------------------------------------------
(* Validation, tokens and the identity handlers (src/utils.py, src/main.py). *)

\* The characters of the model's alphabet, by the classes of the two
\* patterns: a sample of a-z, of A-Z and of 0-9.
Lower == {"a", "b", "e", "i", "l", "o", "v", "x"}
Upper == {"A", "Z"}
Digits == {"0", "9"}

\* re.match with a pattern ending in $: the match may stop before one
\* trailing newline.
StripNewline(text) ==
    IF Len(text) > 0 /\ text[Len(text)] = "\n"
    THEN SubSeq(text, 1, Len(text) - 1)
    ELSE text

\* ^[a-zA-Z0-9_]{3,20}$
validate_login(login) ==
    LET w == StripNewline(login)
    IN  /\ Len(w) >= 3
        /\ Len(w) <= 20
        /\ \A k \in 1..Len(w) : w[k] \in Lower \cup Upper \cup Digits \cup {"_"}

\* ^[a-zA-Z0-9._%+-]+@[a-zA-Z0-9.-]+\.[a-zA-Z]{2,}$
validate_email(email) ==
    LET w == StripNewline(email)
    IN  \E i \in 1..Len(w), j \in 1..Len(w) :
            /\ w[i] = "@"
            /\ w[j] = "."
            /\ i >= 2
            /\ j >= i + 2
            /\ Len(w) - j >= 2
            /\ \A k \in 1..(i - 1) :
                   w[k] \in Lower \cup Upper \cup Digits \cup {".", "_", "%", "+", "-"}
            /\ \A k \in (i + 1)..(j - 1) :
                   w[k] \in Lower \cup Upper \cup Digits \cup {".", "-"}
            /\ \A k \in (j + 1)..Len(w) : w[k] \in Lower \cup Upper

\* PasswordValidator.validate: every check is commented out.
PasswordValidator_validate(password) == TRUE

SECRET_KEY == "your-secret-key"

\* ACCESS_TOKEN_EXPIRE_MINUTES, in instants of the clock (one instant is
\* thirty minutes).
TokenLife == 1

\* create_access_token({"sub": login}): a token signed with SECRET_KEY that
\* expires TokenLife after now.
create_access_token(login, now) ==
    [kind |-> "jwt", sub |-> login, exp |-> now + TokenLife, key |-> SECRET_KEY]

\* A text that is no JWT, and a token signed with another key.
GarbageToken == [kind |-> "garbage", sub |-> <<>>, exp |-> Null, key |-> ""]
Forged(token) == [token EXCEPT !.key = "another-key"]

\* Whether jwt.decode raises JWTError: the text is no JWT, the signature is
\* not SECRET_KEY's, or exp is before now.
RaisesJWTError(token, now) ==
    \/ token.kind # "jwt"
    \/ token.key # SECRET_KEY
    \/ token.exp < now

\* The users whose login is login.
UsersByLogin(login) == {u \in DOMAIN users : users[u].login = login}
UsersByEmail(email) == {u \in DOMAIN users : users[u].email = email}

\* The dependency get_current_user: without a token oauth2_scheme answers 401
\* itself; verify_token raises HTTPException(401) for a token jwt.decode
\* rejects, and so does the handler for a subject that is no user's login;
\* both are raised inside the try block, whose except clause hands every
\* exception to handle_exception.
get_current_user(token, now) ==
    IF token.kind = "none"
    THEN [status |-> HTTP_401_UNAUTHORIZED, id |-> Null]
    ELSE IF RaisesJWTError(token, now)
    THEN [status |-> handle_exception(HTTPException(HTTP_401_UNAUTHORIZED)), id |-> Null]
    ELSE IF UsersByLogin(token.sub) = {}
    THEN [status |-> handle_exception(HTTPException(HTTP_401_UNAUTHORIZED)), id |-> Null]
    ELSE [status |-> HTTP_200_OK, id |-> CHOOSE u \in UsersByLogin(token.sub) : TRUE]

\* The status register's checks end with: the three validations, then the two
\* look-ups, every failure an AppException of the default status code.
RegisterStatus(req) ==
    IF ~validate_login(req.login) THEN handle_exception(AppExceptionDefault)
    ELSE IF ~validate_email(req.email) THEN handle_exception(AppExceptionDefault)
    ELSE IF ~PasswordValidator_validate(req.password)
    THEN handle_exception(AppExceptionDefault)
    ELSE IF UsersByLogin(req.login) # {} THEN handle_exception(AppExceptionDefault)
    ELSE IF UsersByEmail(req.email) # {} THEN handle_exception(AppExceptionDefault)
    ELSE HTTP_200_OK

\* POST /auth/register, up to db.add: a request that fails a check is
\* answered; one that passes them all waits in slot s for its commit.
register_check(s, req) ==
    LET st == RegisterStatus(req)
    IN  /\ pending[s] = Idle
        /\ IF st = HTTP_200_OK
           THEN pending' = [pending EXCEPT ![s] = req] /\ UNCHANGED resp
           ELSE resp' = Response("register", Null, st, NoBody) /\ UNCHANGED pending
        /\ UNCHANGED <<Store, clock, held>>

\* POST /auth/register, from db.commit: the INSERT violates a unique
\* constraint when a user committed meanwhile has the login or the email,
\* and the IntegrityError goes to handle_exception; else the row is stored
\* and a token for its login returned.
register_commit(s) ==
    LET req == pending[s]
        unique == UsersByLogin(req.login) = {} /\ UsersByEmail(req.email) = {}
    IN  /\ req # Idle
        /\ pending' = [pending EXCEPT ![s] = Idle]
        /\ IF unique
           THEN /\ users' = [u \in DOMAIN users \cup {nextUserId} |->
                                IF u = nextUserId
                                THEN NewUserRow(req.login, req.email, req.password)
                                ELSE users[u]]
                /\ nextUserId' = nextUserId + 1
                /\ held' = create_access_token(req.login, clock)
                /\ resp' = Response("register", nextUserId, HTTP_200_OK, NoBody)
           ELSE /\ resp' = Response("register", Null,
                                    handle_exception(OtherException("IntegrityError")),
                                    NoBody)
                /\ UNCHANGED <<users, nextUserId, held>>
        /\ UNCHANGED <<projects, user_project, branches, tasks, nextProjectId,
                       nextBranchId, nextTaskId, clock, skills>>

\* POST /auth/login
login(name, password) ==
    LET found == UsersByLogin(name)
        ok == /\ found # {}
              /\ verify_password(password,
                                 users[CHOOSE u \in found : TRUE].hashed_password)
    IN  /\ IF ok
           THEN /\ held' = create_access_token(name, clock)
                /\ resp' = Response("login", CHOOSE u \in found : TRUE,
                                    HTTP_200_OK, NoBody)
           ELSE /\ resp' = Response("login", Null,
                                    handle_exception(AppException(HTTP_401_UNAUTHORIZED)),
                                    NoBody)
                /\ UNCHANGED held
        /\ UNCHANGED <<Store, clock, pending>>

\* GET /user: runs for the user get_current_user resolves.
get_user(token) ==
    LET cu == get_current_user(token, clock)
    IN  /\ resp' = Response("get_user", cu.id, cu.status, NoBody)
        /\ UNCHANGED <<Store, clock, pending, held>>

\* The status of edit_user for the resolved user cu: 403 for another user's
\* profile unless cu is an ADMIN, 404 for an unknown id, and an IntegrityError
\* at the commit when another user has the new login or e-mail.
EditUserStatus(cu, data) ==
    IF cu.status # HTTP_200_OK THEN cu.status
    ELSE IF cu.id # data.id /\ users[cu.id].role # "ADMIN"
    THEN handle_exception(AppException(HTTP_403_FORBIDDEN))
    ELSE IF data.id \notin DOMAIN users
    THEN handle_exception(AppException(HTTP_404_NOT_FOUND))
    ELSE IF \/ UsersByLogin(data.login) \ {data.id} # {}
            \/ UsersByEmail(data.email) \ {data.id} # {}
    THEN handle_exception(OtherException("IntegrityError"))
    ELSE HTTP_200_OK

\* POST /user/edit
edit_user(token, data) ==
    LET cu == get_current_user(token, clock)
        st == EditUserStatus(cu, data)
    IN  /\ users' = IF st = HTTP_200_OK
                    THEN [users EXCEPT ![data.id].login = data.login,
                                       ![data.id].email = data.email,
                                       ![data.id].role = data.globalRole]
                    ELSE users
        /\ resp' = Response("edit_user", cu.id, st, NoBody)
        /\ UNCHANGED <<projects, user_project, branches, tasks, nextUserId,
                       nextProjectId, nextBranchId, nextTaskId, clock, pending, held,
                       skills>>

\* The status of add_skill for the resolved user cu: 403 unless cu is an
\* ADMIN, and an IntegrityError at the commit when a skill has the name.
AddSkillStatus(cu, name) ==
    IF cu.status # HTTP_200_OK THEN cu.status
    ELSE IF users[cu.id].role # "ADMIN"
    THEN handle_exception(AppException(HTTP_403_FORBIDDEN))
    ELSE IF \E i \in DOMAIN skills : skills[i] = name
    THEN handle_exception(OtherException("IntegrityError"))
    ELSE HTTP_200_OK

\* POST /admin/skills
add_skill(token, name) ==
    LET cu == get_current_user(token, clock)
        st == AddSkillStatus(cu, name)
    IN  /\ skills' = IF st = HTTP_200_OK THEN Append(skills, name) ELSE skills
        /\ resp' = Response("add_skill", cu.id, st, NoBody)
        /\ UNCHANGED <<users, projects, user_project, branches, tasks, nextUserId,
                       nextProjectId, nextBranchId, nextTaskId, clock, pending, held>>

----------------------------------------------------------------------------
(* The authentication specification: users register, concurrently too, log
   in, rename themselves, and present tokens while time passes. *)

Eve == <<"e", "v", "e">>
EveMail == <<"e", "@", "x", ".", "i", "o">>

InitAuth ==
    /\ users = <<>>
    /\ nextUserId = 1
    /\ projects = <<>>
    /\ nextProjectId = 1
    /\ user_project = [k \in UserIds \X ProjectIds |-> 0]
    /\ branches = <<>>
    /\ nextBranchId = 0
    /\ tasks = <<>>
    /\ skills = <<>>
    /\ nextTaskId = 0
    /\ clock = 1
    /\ pending = [s \in 1..MaxPending |-> Idle]
    /\ held = NoToken
    /\ resp = NoResponse

\* The register requests: two well-formed ones with different logins and
\* e-mails, one with the first login and another e-mail, one with a login too
\* short and one with an e-mail without a domain.
RegisterInputs ==
    {[login |-> Alice, email |-> AliceMail, password |-> "pw1"],
     [login |-> Bob, email |-> BobMail, password |-> "pw2"],
     [login |-> Alice, email |-> EveMail, password |-> "pw3"],
     [login |-> <<"a", "l">>, email |-> AliceMail, password |-> "pw1"],
     [login |-> Alice, email |-> <<"a", "@", "x">>, password |-> "pw1"]}

LoginInputs ==
    {[login |-> Alice, password |-> "pw1"],
     [login |-> Alice, password |-> "pw2"],
     [login |-> Bob, password |-> "pw2"],
     [login |-> Eve, password |-> "pw1"]}

\* The payloads of edit_user: user id takes the login Eve and the role
\* named.
EditUserInputs ==
    {[id |-> id, login |-> Eve, email |-> EveMail, globalRole |-> role] :
        id \in UserIds, role \in {"USER", "ADMIN"}}

\* The tokens a client presents: none, the one it holds, that one signed
\* with another key, and a text that is no token.
PresentedTokens == {NoToken, held, Forged(held), GarbageToken}

\* The register requests not yet answered.
InFlight == {s \in DOMAIN pending : pending[s] # Idle}

AuthRegisterCheck ==
    \E s \in DOMAIN pending, req \in RegisterInputs :
        /\ Inserts(RegisterStatus(req)) =>
               nextUserId + Cardinality(InFlight) <= MaxUsers
        /\ register_check(s, req)

AuthRegisterCommit == \E s \in DOMAIN pending : register_commit(s)

AuthLogin == \E req \in LoginInputs : login(req.login, req.password)

AuthGetUser == \E token \in PresentedTokens : get_user(token)

AuthEditUser ==
    \E token \in PresentedTokens, data \in EditUserInputs : edit_user(token, data)

AuthAddSkill ==
    \E token \in PresentedTokens, name \in {"sql"} : add_skill(token, name)

AuthTick == clock < MaxTime + TokenLife /\ Tick

NextAuth ==
    \/ AuthRegisterCheck
    \/ AuthRegisterCommit
    \/ AuthLogin
    \/ AuthGetUser
    \/ AuthEditUser
    \/ AuthAddSkill
    \/ AuthTick

SpecAuth == InitAuth /\ [][NextAuth]_vars

\* C6: register with a well-formed login that a stored user has is answered
\* with the Conflict kind, which is not the Validation kind of a malformed
\* login or e-mail, and leaves table users as it was; also when the stored
\* user was committed after the request's own checks.
C6_DuplicateLoginIsConflict ==
    [][\A s \in DOMAIN pending, req \in RegisterInputs :
          (/\ UsersByLogin(req.login) # {}
           /\ validate_email(req.email)
           /\ \/ register_check(s, req)
              \/ pending[s] = req /\ register_commit(s))
              => /\ ErrorKind(resp'.status) = "Conflict"
                 /\ users' = users]_vars

\* C8: a protected handler called with a token that is no token, is signed
\* with another key or has expired answers with the Unauthorized kind, and
\* with a valid token whose subject is no stored user's login with the
\* NotFound kind; neither changes stored state.
C8_TokenErrorKinds ==
    [][\A token \in PresentedTokens \ {NoToken} :
          LET Called == \/ get_user(token)
                        \/ \E data \in EditUserInputs : edit_user(token, data)
          IN  /\ (RaisesJWTError(token, clock) /\ Called)
                     => /\ ErrorKind(resp'.status) = "Unauthorized"
                        /\ Store' = Store
              /\ (~RaisesJWTError(token, clock) /\ UsersByLogin(token.sub) = {}
                  /\ Called)
                     => /\ ErrorKind(resp'.status) = "NotFound"
                        /\ Store' = Store]_vars

----------------------------------------------------------------------------
(* The edit specification: one task is created from every combination of
   date inputs and edited with requests that supply some keys and leave
   out others. *)

\* What a request holds under a date key: nothing, null, the empty text, a
\* text that is no date, an ISO date and a DD.MM.YYYY date.
DateInputs == {AbsentKey, NullValue, EmptyText, JunkText, IsoText(0), DmyText(1)}

\* Payloads of add_task: every pair of date inputs, an assignee, a file and
\* a message.
EdTaskInputs ==
    {[TaskData(s, e, FALSE, FALSE, "late")
         EXCEPT !.assignedTo = 1, !.file = "f.png",
                !.supplied = OptionalKeys \ {"skillId"}] :
        s \in DateInputs, e \in DateInputs}

\* The optional keys of edit_task_in_branch, dates apart, and the column
\* each is stored in.
EditKeys == {"assignedTo", "skillId", "file", "problemMessage"}
KeyColumn ==
    [k \in EditKeys |->
        CASE k = "assignedTo" -> "assigned_to_id"
          [] k = "skillId" -> "skill_id"
          [] k = "file" -> "file"
          [] k = "problemMessage" -> "problem_message"]

\* Payloads of edit_task_in_branch: each date key left out, or holding a date
\* or a text that is no date; none, one, two or all of the other optional
\* keys supplied.
EdEditInputs ==
    {[title |-> "T2", startDate |-> s, endDate |-> e,
      done |-> TRUE, hasProblem |-> TRUE, problemMessage |-> "",
      assignedTo |-> 2, skillId |-> Null, file |-> "g.png",
      supplied |-> k] :
        s \in {AbsentKey, IsoText(1), JunkText},
        e \in {AbsentKey, DmyText(0), JunkText},
        k \in {{}, {"problemMessage"}, {"assignedTo", "file"}, EditKeys}}

EdAddProject ==
    \E u \in DOMAIN users, name \in ProjectNames :
        nextProjectId <= MaxProjects /\ add_project(u, name)

EdAddBranch ==
    \E u \in DOMAIN users, pid \in ProjectIds, name \in BranchNames :
        /\ Inserts(ProjectGate(u, pid)) => nextBranchId < FewBranches
        /\ add_branch(u, pid, name)

EdAddTask ==
    \E u \in DOMAIN users, pid \in ProjectIds, bid \in AccBranchIds,
       data \in EdTaskInputs :
        /\ Inserts(AddTaskStatus(u, pid, bid, data)) => nextTaskId < FewTasks
        /\ add_task(u, pid, bid, data)

EdEditTask ==
    \E u \in DOMAIN users, pid \in ProjectIds, bid \in AccBranchIds,
       tid \in AccTaskIds, data \in EdEditInputs :
        edit_task_in_branch(u, pid, bid, tid, data)

NextEdit == EdAddProject \/ EdAddBranch \/ EdAddTask \/ EdEditTask

SpecEdit == Init /\ [][NextEdit]_vars

\* C11: a successful editTask leaves every optional field the request does
\* not supply (assignedTo, skillId, file, problemMessage, startDate, endDate)
\* at its previous value, and leaves done and hasProblem as they were.
C11_EditKeepsUnsuppliedFields ==
    [][\A u \in DOMAIN users, pid \in ProjectIds, bid \in AccBranchIds,
          tid \in AccTaskIds, data \in EdEditInputs :
          (TaskGate(u, pid, bid, tid) = HTTP_200_OK
           /\ edit_task_in_branch(u, pid, bid, tid, data))
              => /\ \A k \in EditKeys \ data.supplied :
                        tasks'[tid][KeyColumn[k]] = tasks[tid][KeyColumn[k]]
                 /\ data.startDate = AbsentKey =>
                        tasks'[tid].start_date = tasks[tid].start_date
                 /\ data.endDate = AbsentKey =>
                        tasks'[tid].end_date = tasks[tid].end_date
                 /\ tasks'[tid].done = tasks[tid].done
                 /\ tasks'[tid].has_problem = tasks[tid].has_problem]_vars

\* C13: a createTask by a member succeeds for every pair of date inputs and
\* stores parseDate(startDate input) as the start date and
\* parseDate(endDate input) as the end date, each absent for an absent or
\* unparsable input.
C13_DatesParsedIndependently ==
    [][\A u \in DOMAIN users, pid \in ProjectIds, bid \in AccBranchIds,
          data \in EdTaskInputs :
          (BranchGate(u, pid, bid) = HTTP_200_OK /\ add_task(u, pid, bid, data))
              => /\ resp'.status = HTTP_200_OK
                 /\ nextTaskId' \in DOMAIN tasks'
                 /\ tasks'[nextTaskId'].start_date = parse_date(data.startDate)
                 /\ tasks'[nextTaskId'].end_date = parse_date(data.endDate)]_vars

\* C12: a handler addressed by a (project, branch) pair, called with the id
\* of a stored branch that does not belong to the project named, answers
\* NotFound and changes no stored state, whoever calls it.
C12_ForeignBranchIsNotFound ==
    [][\A u \in DOMAIN users, pid \in AccProjectIds, bid \in AccBranchIds,
          tid \in AccTaskIds :
          (/\ bid \in DOMAIN branches
           /\ branches[bid].project_id # pid
           /\ \/ edit_project_branch(u, pid, bid, "B2", NoneStr)
              \/ delete_project_branch(u, pid, bid)
              \/ \E data \in AccTaskInputs : add_task(u, pid, bid, data)
              \/ \E data \in AccEditInputs :
                     edit_task_in_branch(u, pid, bid, tid, data)
              \/ delete_task_in_branch(u, pid, bid, tid)
              \/ done_task_in_branch(u, pid, bid, tid, NoneStr)
              \/ problem_task_in_branch(u, pid, bid, tid, "late"))
              => /\ ErrorKind(resp'.status) = "NotFound"
                 /\ Store' = Store]_vars

\* C17: every stored task references a stored branch and every stored branch
\* a stored project.
C17_ReferencesResolve ==
    /\ \A t \in DOMAIN tasks : tasks[t].branch_id \in DOMAIN branches
    /\ \A b \in DOMAIN branches : branches[b].project_id \in DOMAIN projects

\* C14: in every project summary returned, the project's delayedTasksCount
\* equals the sum of delayedTasksCount over the statistics of the branches in
\* the same response, also when the clock advances while it is computed.
C14_DelayedTotalIsBranchSum ==
    (resp.op = "get_project_info" /\ resp.status = HTTP_200_OK) =>
        resp.body.statistics.delayedTasksCount =
            SumOfBranches(resp.body.branches, DOMAIN resp.body.branches,
                          "delayedTasksCount")

\* The tasks of the set ts whose end date is present and before the instant
\* at and which are not done, whatever their has_problem.
LateOpen(ts, at) ==
    {t \in ts : /\ tasks[t].end_date # NoDate
                /\ tasks[t].end_date < at
                /\ tasks[t].done = FALSE}

\* The tasks of every branch of the project pid.
ProjectTasks(pid) == UNION {TasksOf(b) : b \in BranchesOf(pid)}

----------------------------------------------------------------------------
(* Handlers as several server processes run them: every handler works in
   its own database session, its reads see what is committed and its writes
   reach the store at db.commit().  A handler with a step of its own after
   its reads is taken in two steps; between them it waits in a session slot
   of pending.  (uvicorn.run(app) alone starts one process, whose handlers
   never yield: there each handler is the single step of the sections
   above.) *)

\* Whether the request waiting in session s is one of handler op.
Waiting(s, op) ==
    /\ "op" \in DOMAIN pending[s]
    /\ pending[s].op = op

\* POST /projects, up to the first db.commit(): the project row is stored
\* and has no association row yet.
add_project_insert(s, u, name) ==
    /\ pending[s] = Idle
    /\ projects' = [p \in DOMAIN projects \cup {nextProjectId} |->
                       IF p = nextProjectId
                       THEN [name |-> name, created_by |-> u]
                       ELSE projects[p]]
    /\ nextProjectId' = nextProjectId + 1
    /\ pending' = [pending EXCEPT ![s] =
                      [op |-> "add_project", user |-> u, pid |-> nextProjectId]]
    /\ UNCHANGED <<users, user_project, branches, tasks, nextUserId,
                   nextBranchId, nextTaskId, clock, held, resp, skills>>

\* POST /projects, from members.append to the second db.commit(): the
\* creator's association row; its foreign key fails when the project was
\* deleted meanwhile.
add_project_join(s) ==
    LET req == pending[s]
    IN  /\ Waiting(s, "add_project")
        /\ pending' = [pending EXCEPT ![s] = Idle]
        /\ IF req.pid \in DOMAIN projects
           THEN /\ user_project' =
                       [user_project EXCEPT ![<<req.user, req.pid>>] = @ + 1]
                /\ resp' = Response("add_project", req.user, HTTP_200_OK, NoBody)
           ELSE /\ resp' = Response("add_project", req.user,
                                    handle_exception(OtherException("IntegrityError")),
                                    NoBody)
                /\ UNCHANGED user_project
        /\ UNCHANGED <<users, projects, branches, tasks, nextUserId,
                       nextProjectId, nextBranchId, nextTaskId, clock, held,
                       skills>>

\* POST /projects/{project_id}/users, up to members.append: a request that
\* fails a check is answered; one that passes them all waits for its commit.
add_user_to_project_check(s, u, pid, target) ==
    LET st == AddUserStatus(u, pid, target)
    IN  /\ pending[s] = Idle
        /\ IF st = HTTP_200_OK
           THEN /\ pending' = [pending EXCEPT ![s] =
                                  [op |-> "add_user_to_project", user |-> u,
                                   pid |-> pid, target |-> target]]
                /\ UNCHANGED resp
           ELSE /\ resp' = Response("add_user_to_project", u, st, NoBody)
                /\ UNCHANGED pending
        /\ UNCHANGED <<Store, clock, held>>

\* POST /projects/{project_id}/users, db.commit(): the association row is
\* inserted; user_project has no key, so a row of the same pair committed
\* meanwhile does not stop it, only a missing project or user does.
add_user_to_project_commit(s) ==
    LET req == pending[s]
    IN  /\ Waiting(s, "add_user_to_project")
        /\ pending' = [pending EXCEPT ![s] = Idle]
        /\ IF req.pid \in DOMAIN projects /\ req.target \in DOMAIN users
           THEN /\ user_project' =
                       [user_project EXCEPT ![<<req.target, req.pid>>] = @ + 1]
                /\ resp' = Response("add_user_to_project", req.user, HTTP_200_OK,
                                    NoBody)
           ELSE /\ resp' = Response("add_user_to_project", req.user,
                                    handle_exception(OtherException("IntegrityError")),
                                    NoBody)
                /\ UNCHANGED user_project
        /\ UNCHANGED <<users, projects, branches, tasks, nextUserId,
                       nextProjectId, nextBranchId, nextTaskId, clock, held,
                       skills>>

\* A request to mark a task that has passed its checks: the row it loaded
\* and the row after its three assignments.
MarkRequest(op, u, bid, tid, problemMessage, loaded, dirty) ==
    [op |-> op, user |-> u, bid |-> bid, tid |-> tid, msg |-> problemMessage,
     loaded |-> loaded, dirty |-> dirty]

\* .../task/{task_id}/done, up to the assignments.
done_task_in_branch_load(s, u, pid, bid, tid, problemMessage) ==
    LET st == TaskGate(u, pid, bid, tid)
    IN  /\ pending[s] = Idle
        /\ IF st = HTTP_200_OK
           THEN /\ pending' = [pending EXCEPT ![s] =
                                  MarkRequest("done_task_in_branch", u, bid, tid,
                                              problemMessage, tasks[tid],
                                              DoneRow(tasks[tid], problemMessage))]
                /\ UNCHANGED resp
           ELSE /\ resp' = TaskResponse("done_task_in_branch", u, tid,
                                        problemMessage, FALSE, st)
                /\ UNCHANGED pending
        /\ UNCHANGED <<Store, clock, held>>

\* .../task/{task_id}/problem, up to the assignments.
problem_task_in_branch_load(s, u, pid, bid, tid, problemMessage) ==
    LET st == TaskGate(u, pid, bid, tid)
    IN  /\ pending[s] = Idle
        /\ IF st = HTTP_200_OK
           THEN /\ pending' = [pending EXCEPT ![s] =
                                  MarkRequest("problem_task_in_branch", u, bid, tid,
                                              problemMessage, tasks[tid],
                                              ProblemRow(tasks[tid], problemMessage))]
                /\ UNCHANGED resp
           ELSE /\ resp' = TaskResponse("problem_task_in_branch", u, tid,
                                        problemMessage, FALSE, st)
                /\ UNCHANGED pending
        /\ UNCHANGED <<Store, clock, held>>

\* The row after the session's UPDATE: the unit of work sets the columns
\* whose value differs from the one it loaded and leaves to the others what
\* is stored.
FlushRow(stored, loaded, dirty) ==
    [k \in DOMAIN stored |-> IF dirty[k] # loaded[k] THEN dirty[k] ELSE stored[k]]

\* db.commit() and db.refresh(task) of both markers: a task deleted
\* meanwhile cannot be updated or refreshed.
mark_commit(s) ==
    LET req == pending[s]
    IN  /\ Waiting(s, "done_task_in_branch") \/ Waiting(s, "problem_task_in_branch")
        /\ pending' = [pending EXCEPT ![s] = Idle]
        /\ IF req.tid \in DOMAIN tasks
           THEN /\ tasks' = [tasks EXCEPT ![req.tid] =
                                FlushRow(@, req.loaded, req.dirty)]
                /\ resp' = TaskResponse(req.op, req.user, req.tid, req.msg,
                                        /\ req.op = "done_task_in_branch"
                                        /\ Repeats(req.user, req.bid, req.tid, req.msg),
                                        HTTP_200_OK)
           ELSE /\ resp' = TaskResponse(req.op, req.user, req.tid, req.msg, FALSE,
                                        handle_exception(OtherException("StaleDataError")))
                /\ UNCHANGED tasks
        /\ UNCHANGED <<users, projects, user_project, branches, nextUserId,
                       nextProjectId, nextBranchId, nextTaskId, clock, held,
                       skills>>

----------------------------------------------------------------------------
(* The concurrency specification: two sessions create a project, add and
   remove members and mark a task, with a reader of the summary. *)

\* The payload of add_task: no dates, neither flag set.
ConcTaskInput == TaskData(AbsentKey, AbsentKey, FALSE, FALSE, NoneStr)

ConcAddProjectInsert ==
    \E s \in DOMAIN pending, u \in DOMAIN users, name \in ProjectNames :
        nextProjectId <= MaxProjects /\ add_project_insert(s, u, name)

ConcAddProjectJoin == \E s \in DOMAIN pending : add_project_join(s)

ConcAddUserCheck ==
    \E s \in DOMAIN pending, u \in DOMAIN users, pid \in ProjectIds,
       target \in DOMAIN users :
        add_user_to_project_check(s, u, pid, target)

ConcAddUserCommit == \E s \in DOMAIN pending : add_user_to_project_commit(s)

ConcRemoveUser ==
    \E u \in DOMAIN users, pid \in ProjectIds, target \in DOMAIN users :
        remove_user_from_project(u, pid, target)

ConcAddBranch ==
    \E u \in DOMAIN users, pid \in ProjectIds, name \in BranchNames :
        /\ Inserts(ProjectGate(u, pid)) => nextBranchId < FewBranches
        /\ add_branch(u, pid, name)

ConcAddTask ==
    \E u \in DOMAIN users, pid \in ProjectIds, bid \in AccBranchIds :
        /\ Inserts(AddTaskStatus(u, pid, bid, ConcTaskInput)) => nextTaskId < FewTasks
        /\ add_task(u, pid, bid, ConcTaskInput)

ConcDoneLoad ==
    \E s \in DOMAIN pending, u \in DOMAIN users, pid \in ProjectIds,
       bid \in AccBranchIds, tid \in AccTaskIds :
        done_task_in_branch_load(s, u, pid, bid, tid, NoneStr)

ConcProblemLoad ==
    \E s \in DOMAIN pending, u \in DOMAIN users, pid \in ProjectIds,
       bid \in AccBranchIds, tid \in AccTaskIds :
        problem_task_in_branch_load(s, u, pid, bid, tid, "late")

ConcMarkCommit == \E s \in DOMAIN pending : mark_commit(s)

ConcInfo ==
    \E u \in DOMAIN users, pid \in ProjectIds : get_project_info(u, pid, clock)

NextConc ==
    \/ ConcAddProjectInsert
    \/ ConcAddProjectJoin
    \/ ConcAddUserCheck
    \/ ConcAddUserCommit
    \/ ConcRemoveUser
    \/ ConcAddBranch
    \/ ConcAddTask
    \/ ConcDoneLoad
    \/ ConcProblemLoad
    \/ ConcMarkCommit
    \/ ConcInfo

SpecConc == Init /\ [][NextConc]_vars

\* C16: markDone and markProblem are applied atomically under every
\* interleaving with each other and with readers: the committed row carries
\* the two flags and the problemMessage the request assigned, and no stored
\* task, so none a reader is shown, has done and has_problem both true.
C16_MarksAreAtomic ==
    [][/\ \A s \in DOMAIN pending :
              (mark_commit(s) /\ resp'.status = HTTP_200_OK)
                  => LET row == tasks'[pending[s].tid]
                     IN  /\ row.done = pending[s].dirty.done
                         /\ row.has_problem = pending[s].dirty.has_problem
                         /\ row.problem_message = pending[s].dirty.problem_message
       /\ \A t \in DOMAIN tasks' : ~(tasks'[t].done /\ tasks'[t].has_problem)]_vars

\* C18: the membership relation never holds the same user twice, however
\* the addMember requests for one project and user interleave, and a
\* removeMember answered afterwards leaves the user a non-member.
C18_MembershipHoldsUserOnce ==
    [][/\ \A k \in DOMAIN user_project' : user_project'[k] <= 1
       /\ \A u \in DOMAIN users, pid \in ProjectIds, target \in DOMAIN users :
              (/\ ProjectGate(u, pid) = HTTP_200_OK
               /\ IsMember(target, pid)
               /\ remove_user_from_project(u, pid, target))
                  => ~IsMember(target, pid)']_vars

\* C19: when createProject by u completes, u is the project's only member
\* and the project is in u's project list and in no other user's; and while
\* it has not completed no request finds the project: a summary requested
\* of it is answered NotFound.
C19_ProjectNeverSeenWithoutMember ==
    [][/\ \A s \in DOMAIN pending :
              (add_project_join(s) /\ resp'.status = HTTP_200_OK)
                  => \A u \in DOMAIN users :
                         /\ pending[s].pid \in DOMAIN projects'
                         /\ user_project'[<<u, pending[s].pid>>] > 0
                                <=> u = pending[s].user
       /\ \A s \in DOMAIN pending, u \in DOMAIN users :
              (/\ Waiting(s, "add_project")
               /\ get_project_info(u, pending[s].pid, clock))
                  => ErrorKind(resp'.status) = "NotFound"]_vars

\* C20: while every user's role is USER no request makes a role ADMIN, so
\* add_skill never succeeds; and edit_user by a user who is no ADMIN, for
\* another user's id, is answered Forbidden and changes nothing stored.
C20_UserCannotBecomeAdmin ==
    [][(\A x \in DOMAIN users : users[x].role = "USER")
          => /\ \A x \in DOMAIN users' : users'[x].role = "USER"
             /\ skills' = skills
             /\ \A token \in PresentedTokens, data \in EditUserInputs :
                    (/\ get_current_user(token, clock).status = HTTP_200_OK
                     /\ get_current_user(token, clock).id # data.id
                     /\ edit_user(token, data))
                        => /\ ErrorKind(resp'.status) = "Forbidden"
                           /\ Store' = Store]_vars

\* A user who began as USER has had add_skill answered 200.
C20_SkillAddedByFormerUser ==
    /\ resp.op = "add_skill"
    /\ resp.status = HTTP_200_OK
    /\ skills # <<>>

====
